---- MODULE Spec2Model ----
(***************************************************************************)
(* A model of anjin's incremental synchronisation and caching engine:     *)
(*   - vector.py: ChromaIndex, the content-hash change detection and the   *)
(*     reconciliation of a chroma collection against the change set;       *)
(*   - release_notes.py and dependency.py: the per-package pipeline that   *)
(*     looks up versions, consults the changelog cache, retrieves and      *)
(*     summarises changelogs.                                              *)
(* File contents are sequences of one-character strings.  sha256 is        *)
(* modelled as an injective tagging of the hashed text.                    *)
(***************************************************************************)
EXTENDS Integers, Sequences, FiniteSets, TLC

(***************************************************************************)
(* Bounds of the model.                                                    *)
(***************************************************************************)
\* number of ChromaIndex objects constructed in one behaviour
MaxRuns == 3
\* number of times the environment writes or removes a file in one behaviour
MaxEdits == 4

\* highest version number PyPI may report for a package
MaxVersion == 3
\* number of check_updates runs in one behaviour
MaxChecks == 2

\* number of ChangelogCache.set calls in one behaviour
MaxCacheOps == 3
\* longest text handed to the chunker
MaxTextLen == 10
\* largest max_chunk_size and overlap handed to the chunker
MaxChunkSize == 4
MaxOverlap == 5
\* iterations of the chunker's loop that are followed
MaxChunks == MaxTextLen + 2

(***************************************************************************)
(* Program constants.                                                      *)
(***************************************************************************)
\* _chunk_file_content's default max_chunk_size and overlap
max_chunk_size == 1000
overlap == 100

\* the contents a file may have: two texts that differ in a letter and two
\* that differ only in a newline
Contents == {<<"a">>, <<"a", "\n">>, <<"b">>}

\* the codebase paths a ChromaIndex is built for, as character sequences
MainCodebase == <<"/", "a">>
OtherCodebase == <<"/", "b">>
Codebases == {MainCodebase, OtherCodebase}

\* the .py files os.walk can find under a codebase: <<codebase, name>>
FilesOf(cb) ==
    IF cb = MainCodebase THEN {<<cb, "f.py">>, <<cb, "g.py">>} ELSE {<<cb, "h.py">>}
Files == UNION {FilesOf(cb) : cb \in Codebases}

\* the contents the model gives a file: the file of the second codebase has one
ContentsOf(f) == IF f[1] = MainCodebase THEN Contents ELSE {<<"a">>}

\* a path with no file, and Python's None
Absent == <<"absent">>
None == <<"None">>

VARIABLES
    corpus,          \* the file system: file path -> content, or Absent
    indexFile,       \* ~/.anjin_cache/index/index.json: path -> [file_hash, indexed_at]
    chroma,          \* the chroma client: collection name -> set of records
    clock,           \* datetime.now(), one tick per constructed object
    edits,           \* number of file writes and removals so far
    pc,              \* where the current ChromaIndex object is in its life
    codebase,        \* self._codebase_path
    index_cache,     \* self._index_cache
    files_to_index,  \* self._files_to_index
    files_to_delete, \* self._files_to_delete
    all_file_paths,  \* self._all_file_paths
    cleared,         \* the clear_cache argument the object was built with
    loadedIndex,     \* history: self._index_cache as __init__ left it
    scanned,         \* history: the codebase's files as _scan_codebase read them
    prevRun,         \* history: the last completed run at construction time
    lastCompleted,   \* history: codebase and corpus of the last completed run
    issuedAdds,      \* history: file paths the last call sent to collection.add
    issuedDeletes,   \* history: file paths the last call sent to collection.delete
    lastAdded,       \* history: path -> hash of the content last added to a store
    failed           \* history: the paths whose store call raised in this run

VARIABLES
    impl,            \* which pipeline runs: release_notes.py or dependency.py
    use_cache,       \* settings.USE_CACHE
    gather,          \* asyncio.gather over the tasks of the run
    checks,          \* number of runs started so far
    ignored,         \* the packages marked anjin:ignore
    task,            \* package -> the state of its task
    overall,         \* the completed count of the overall progress bar
    notesCache,      \* ~/.anjin_cache/changelog_cache.json: key -> text
    runnerCache,     \* ~/.anjin_cache/changelogs/<package>.json: key -> text
    setCalls,        \* history: <<pipeline, package, latest>> -> cache writes
    corrupt          \* the cache files that do not hold valid JSON

VARIABLES
    cacheModel,      \* history: <<package, from, to>> -> the text last set
    cacheReturned,   \* what the last call on the ChangelogCache returned
    cacheOps         \* number of calls on the ChangelogCache so far

VARIABLES
    chText,          \* the arguments of the running chunker call
    chSize,
    chOverlap,
    chStart,         \* the local variable start
    chChunks,        \* the local variable chunks
    chPc             \* idle, in the while loop, or returned

pipeVars == <<impl, use_cache, gather, checks, ignored, task, overall,
              notesCache, runnerCache, setCalls, corrupt>>

cacheVars == <<cacheModel, cacheReturned, cacheOps>>

chunkVars == <<chText, chSize, chOverlap, chStart, chChunks, chPc>>

indexVars == <<corpus, indexFile, chroma, clock, edits, pc, codebase, index_cache,
               files_to_index, files_to_delete, all_file_paths, cleared,
               loadedIndex, scanned, prevRun, lastCompleted, issuedAdds,
               issuedDeletes, lastAdded, failed>>

vars == <<indexVars, pipeVars, cacheVars, chunkVars>>

(***************************************************************************)
(* Pure helpers of vector.py.                                              *)
(***************************************************************************)
\* the content as read, with its newlines
StripNewlines_keeps_newlines(s) == s

\* re.sub(r"\n", "", content)
RECURSIVE StripNewlines(_)
StripNewlines(s) ==
    IF s = <<>> THEN <<>>
    ELSE IF Head(s) = "\n" THEN StripNewlines(Tail(s))
    ELSE <<Head(s)>> \o StripNewlines(Tail(s))

\* hashlib.sha256(content).hexdigest(): injective, never empty
_generate_file_content_hash(content) == <<"sha256", content>>

Min(a, b) == IF a < b THEN a ELSE b

\* a slice bound as Python reads it: negative counts from the end, and the
\* result is clamped to 0..n
SliceBound(i, n) ==
    IF i < 0 THEN (IF i + n < 0 THEN 0 ELSE i + n) ELSE Min(i, n)

\* text[start:end] with 0-based start and exclusive end
Slice(text, start, end) ==
    LET from == SliceBound(start, Len(text))
        to == SliceBound(end, Len(text))
    IN  IF from < to THEN SubSeq(text, from + 1, to) ELSE <<>>

\* the while loop with windows that do not overlap
RECURSIVE ChunkLoop_no_overlap(_, _, _, _)
ChunkLoop_no_overlap(text, start, size, ovl) ==
    IF start < Len(text)
    THEN <<Slice(text, start, Min(start + size, Len(text)))>>
         \o ChunkLoop_no_overlap(text, start + size, size, ovl)
    ELSE <<>>

\* the while loop of _recursive_chunk_with_overlap, from window start `start`
RECURSIVE ChunkLoop(_, _, _, _)
ChunkLoop(text, start, size, ovl) ==
    IF start < Len(text)
    THEN <<Slice(text, start, Min(start + size, Len(text)))>>
         \o ChunkLoop(text, start + (size - ovl), size, ovl)
    ELSE <<>>

_recursive_chunk_with_overlap(text, size, ovl) ==
    IF Len(text) <= size THEN <<text>> ELSE ChunkLoop(text, 0, size, ovl)

_chunk_file_content(content) ==
    _recursive_chunk_with_overlap(content, max_chunk_size, overlap)

Range(s) == {s[i] : i \in 1..Len(s)}

\* self._codebase_path[1:].replace("/", "-")
CollectionName(cb) ==
    LET rest == Tail(cb)
    IN  [i \in 1..Len(rest) |-> IF rest[i] = "/" THEN "-" ELSE rest[i]]
Collections == {CollectionName(cb) : cb \in Codebases}

\* self._index_cache.get(file_path, {}).get("file_hash")
_get_stored_file_hash(cache, file_path) ==
    IF file_path \in DOMAIN cache THEN cache[file_path].file_hash ELSE None

EmptyMap == [f \in {} |-> None]

\* no run has completed yet
NoRun == [codebase |-> None, corpus |-> EmptyMap]

Without(m, S) == [f \in (DOMAIN m) \ S |-> m[f]]

\* _handle_file without the comparison of the two hashes
_handle_file_no_compare(cache, file_path, raw) ==
    LET current_file_content == StripNewlines(raw)
    IN  <<[file_path |-> file_path,
           file_hash |-> _generate_file_content_hash(current_file_content),
           content |-> current_file_content]>>

\* the FileToIndex tuples _handle_file appends for file_path: none or one
_handle_file(cache, file_path, raw) ==
    LET current_file_content == StripNewlines(raw)
        current_file_hash == _generate_file_content_hash(current_file_content)
        stored_file_hash == _get_stored_file_hash(cache, file_path)
    IN  IF stored_file_hash = None
           \/ (stored_file_hash # None /\ current_file_hash # stored_file_hash)
        THEN <<[file_path |-> file_path, file_hash |-> current_file_hash,
                content |-> current_file_content]>>
        ELSE <<>>

\* _scan_codebase over the files in the order os.walk yields them
RECURSIVE ScanLoop(_, _, _)
ScanLoop(cache, order, fs) ==
    IF order = <<>> THEN <<>>
    ELSE _handle_file(cache, Head(order), fs[Head(order)])
         \o ScanLoop(cache, Tail(order), fs)

Orders(S) == {s \in [1..Cardinality(S) -> S] : Range(s) = S}

\* records whose ids are made from the chunk and the time of the call
ChunkRecords_ids_by_time(file_to_index) ==
    LET chunks == _chunk_file_content(file_to_index.content)
    IN  {[id |-> _generate_file_content_hash(chunks[i] \o <<ToString(clock)>>),
          document |-> chunks[i],
          file_path |-> file_to_index.file_path] : i \in 1..Len(chunks)}

\* the records one collection.add call sends for a file
ChunkRecords(file_to_index) ==
    LET chunks == _chunk_file_content(file_to_index.content)
    IN  {[id |-> _generate_file_content_hash(chunks[i]), document |-> chunks[i],
          file_path |-> file_to_index.file_path] : i \in 1..Len(chunks)}

\* collection.add rejects a batch that repeats an id
AddRaises(file_to_index) ==
    LET chunks == _chunk_file_content(file_to_index.content)
    IN  \E i, j \in 1..Len(chunks) : i < j /\ chunks[i] = chunks[j]

\* collection.add: a record whose id the collection already holds is ignored
CollectionAdd(coll, records) ==
    coll \cup {r \in records : \A e \in coll : e.id # r.id}

\* collection.delete that removes nothing
CollectionDelete_removes_nothing(coll, file_path) == coll

\* collection.delete(where={"file_path": file_path})
CollectionDelete(coll, file_path) == {r \in coll : r.file_path # file_path}

\* the first n iterations of the loop of _add_files_to_vector_db
RECURSIVE _add_files_to_vector_db(_, _, _)
_add_files_to_vector_db(coll, fs, n) ==
    IF n = 0 THEN coll
    ELSE CollectionAdd(_add_files_to_vector_db(coll, fs, n - 1), ChunkRecords(fs[n]))

\* _update_index_cache that stamps every entry of the index, not only the
\* entries of the files it indexed
RECURSIVE _update_index_cache_restamps_all(_, _, _)
_update_index_cache_restamps_all(cache, fs, now) ==
    IF fs = <<>> THEN [p \in DOMAIN cache |-> [cache[p] EXCEPT !.indexed_at = now]]
    ELSE LET f == Head(fs)
             entry == [file_hash |-> f.file_hash, indexed_at |-> now]
             upd == [p \in (DOMAIN cache) \cup {f.file_path} |->
                        IF p = f.file_path THEN entry ELSE cache[p]]
         IN  _update_index_cache_restamps_all(upd, Tail(fs), now)

\* _update_index_cache: later tuples of the list overwrite earlier ones
RECURSIVE _update_index_cache(_, _, _)
_update_index_cache(cache, fs, now) ==
    IF fs = <<>> THEN cache
    ELSE LET f == Head(fs)
             entry == [file_hash |-> f.file_hash, indexed_at |-> now]
             upd == [p \in (DOMAIN cache) \cup {f.file_path} |->
                        IF p = f.file_path THEN entry ELSE cache[p]]
         IN  _update_index_cache(upd, Tail(fs), now)

\* _remove_file_from_index_cache that forgets to drop the entry
_remove_file_keeps_entry(cache, file_path) == cache

\* _remove_file_from_index_cache
_remove_file_from_index_cache(cache, file_path) == Without(cache, {file_path})

\* the iterations of the loop of _handle_files_to_delete over the paths S:
\* what they leave of the collection ...
RECURSIVE DeleteLoopStore(_, _)
DeleteLoopStore(coll, S) ==
    IF S = {} THEN coll
    ELSE LET f == CHOOSE x \in S : TRUE
         IN  DeleteLoopStore(CollectionDelete(coll, f), S \ {f})

\* ... and of self._index_cache
RECURSIVE DeleteLoopCache(_, _)
DeleteLoopCache(cache, S) ==
    IF S = {} THEN cache
    ELSE LET f == CHOOSE x \in S : TRUE
         IN  DeleteLoopCache(_remove_file_from_index_cache(cache, f), S \ {f})

\* _get_files_to_delete that does not subtract the scanned paths
_get_files_to_delete_all(cache, paths) == DOMAIN cache

\* _get_files_to_delete
_get_files_to_delete(cache, paths) == (DOMAIN cache) \ paths

(***************************************************************************)
(* The life of a ChromaIndex object.                                       *)
(***************************************************************************)
Idle == pc \in {"none", "written", "rewritten", "aborted_add", "aborted_delete"}

IndexInit ==
    /\ corpus = [f \in Files |-> Absent]
    /\ indexFile = EmptyMap
    /\ chroma = [c \in Collections |-> {}]
    /\ clock = 0
    /\ edits = 0
    /\ pc = "none"
    /\ codebase = MainCodebase
    /\ index_cache = EmptyMap
    /\ files_to_index = <<>>
    /\ files_to_delete = {}
    /\ all_file_paths = {}
    /\ cleared = FALSE
    /\ loadedIndex = EmptyMap
    /\ scanned = EmptyMap
    /\ prevRun = NoRun
    /\ lastCompleted = NoRun
    /\ issuedAdds = {}
    /\ issuedDeletes = {}
    /\ lastAdded = [f \in Files |-> None]
    /\ failed = {}

\* the environment writes or replaces a .py file between runs
WriteFile(f, c) ==
    /\ Idle
    /\ edits < MaxEdits
    /\ corpus[f] # c
    /\ corpus' = [corpus EXCEPT ![f] = c]
    /\ edits' = edits + 1
    /\ UNCHANGED <<indexFile, chroma, clock, pc, codebase, index_cache,
                   files_to_index, files_to_delete, all_file_paths, cleared,
                   loadedIndex, scanned, prevRun, lastCompleted, issuedAdds,
                   issuedDeletes, lastAdded, failed>>
    /\ UNCHANGED <<pipeVars, cacheVars, chunkVars>>

\* the environment removes a .py file between runs
RemoveFile(f) ==
    /\ Idle
    /\ edits < MaxEdits
    /\ corpus[f] # Absent
    /\ corpus' = [corpus EXCEPT ![f] = Absent]
    /\ edits' = edits + 1
    /\ UNCHANGED <<indexFile, chroma, clock, pc, codebase, index_cache,
                   files_to_index, files_to_delete, all_file_paths, cleared,
                   loadedIndex, scanned, prevRun, lastCompleted, issuedAdds,
                   issuedDeletes, lastAdded, failed>>
    /\ UNCHANGED <<pipeVars, cacheVars, chunkVars>>

\* ChromaIndex.__init__
Construct(cb, clear_cache, clear_chroma) ==
    /\ Idle
    /\ clock < MaxRuns
    /\ clock' = clock + 1
    /\ codebase' = cb
    /\ files_to_index' = <<>>
    /\ files_to_delete' = {}
    /\ all_file_paths' = {}
    /\ index_cache' = IF clear_cache THEN EmptyMap ELSE indexFile
    /\ chroma' = IF clear_chroma
                 THEN [chroma EXCEPT ![CollectionName(cb)] = {}]
                 ELSE chroma
    /\ cleared' = clear_cache
    /\ loadedIndex' = index_cache'
    /\ scanned' = EmptyMap
    /\ prevRun' = lastCompleted
    /\ issuedAdds' = {}
    /\ issuedDeletes' = {}
    /\ failed' = {}
    /\ pc' = "init"
    /\ UNCHANGED <<corpus, edits, indexFile, lastCompleted, lastAdded>>
    /\ UNCHANGED <<pipeVars, cacheVars, chunkVars>>

\* _handle_files_to_add over the list fs.  failAt = 0: the store accepts every
\* batch; failAt = k: the store raises on the k-th batch.  The exception leaves
\* the loop, so _update_index_cache is not reached.
_handle_files_to_add(coll, cache, fs, failAt, now) ==
    LET n == Len(fs)
        bad == {k \in 1..n : k = failAt \/ AddRaises(fs[k])}
        raised == bad # {}
        first == CHOOSE k \in bad : \A j \in bad : k <= j
        done == IF raised THEN first - 1 ELSE n
    IN  [raised |-> raised,
         done |-> done,
         tried |-> IF raised THEN first ELSE n,
         coll |-> _add_files_to_vector_db(coll, fs, done),
         cache |-> IF raised THEN cache ELSE _update_index_cache(cache, fs, now)]

\* _handle_files_to_delete.  The loop runs over a set: `failing` is the path
\* whose delete the store refuses (None: no refusal) and `done` the paths
\* handled before it.
_handle_files_to_delete(coll, cache, failing, done) ==
    [raised |-> failing # None,
     coll |-> DeleteLoopStore(coll, done),
     cache |-> DeleteLoopCache(cache, done)]

\* _write_index_cache that adds its entries to the ones the file holds
_write_index_cache_appends(cache) ==
    [p \in (DOMAIN cache) \cup (DOMAIN indexFile) |->
        IF p \in DOMAIN cache THEN cache[p] ELSE indexFile[p]]

\* what _write_index_cache leaves in index.json
_write_index_cache(cache) == cache

\* index.json after index_codebase: an exception of the store leaves the call
\* before _write_index_cache is reached
_write_index_cache_always(file, cache, raised) == _write_index_cache(cache)

IndexFileAfter(file, cache, raised) ==
    IF raised THEN file ELSE _write_index_cache(cache)

\* index_codebase: _scan_codebase, _handle_files_to_add, _handle_files_to_delete
\* and _write_index_cache; an exception of the store ends the call at once.
\* The call is made at one of the places `at` in the life of the object and at
\* the time `now`, and leaves the object at `to` when it completes; sentAdds
\* and sentDeletes are the store calls counted so far.
index_codebase(at, to, now, sentAdds, sentDeletes) ==
    /\ pc \in at
    /\ \E order \in Orders({f \in FilesOf(codebase) : corpus[f] # Absent}) :
       \E fs \in {files_to_index \o ScanLoop(index_cache, order, corpus)} :
       \E failAt \in 0..Len(fs) :
       \E add \in {_handle_files_to_add(chroma[CollectionName(codebase)],
                                        index_cache, fs, failAt, now)} :
       \E todo \in {IF add.raised THEN {}
                    ELSE _get_files_to_delete(add.cache,
                                              all_file_paths \cup Range(order))} :
       \E failing \in todo \cup {None} :
       \E done \in SUBSET (todo \ {failing}) :
       \E del \in {_handle_files_to_delete(add.coll, add.cache, failing, done)} :
          /\ failing = None => done = todo
          /\ files_to_index' = fs
          /\ all_file_paths' = all_file_paths \cup Range(order)
          /\ files_to_delete' = IF add.raised THEN files_to_delete ELSE todo
          /\ chroma' = [chroma EXCEPT ![CollectionName(codebase)] = del.coll]
          /\ index_cache' = del.cache
          /\ issuedAdds' = sentAdds \cup {fs[k].file_path : k \in 1..add.tried}
          /\ issuedDeletes' = sentDeletes \cup done
                 \cup (IF failing = None THEN {} ELSE {failing})
          /\ lastAdded' = [f \in Files |->
                 LET ks == {k \in 1..add.done : fs[k].file_path = f}
                 IN  IF ks = {} THEN lastAdded[f]
                     ELSE fs[CHOOSE k \in ks : \A j \in ks : j <= k].file_hash]
          /\ indexFile' = IndexFileAfter(indexFile, del.cache,
                                         add.raised \/ del.raised)
          /\ failed' = IF add.raised THEN {fs[add.tried].file_path}
                       ELSE IF failing # None THEN {failing}
                       ELSE {}
          /\ lastCompleted' =
                 IF ~add.raised /\ ~del.raised
                 THEN [codebase |-> codebase,
                       corpus |-> [f \in FilesOf(codebase) |-> corpus[f]]]
                 ELSE lastCompleted
          /\ pc' = IF add.raised THEN "aborted_add"
                   ELSE IF del.raised THEN "aborted_delete"
                   ELSE to
    /\ scanned' = [f \in FilesOf(codebase) |-> corpus[f]]
    /\ clock' = now
    /\ UNCHANGED <<corpus, edits, codebase, cleared, loadedIndex, prevRun>>
    /\ UNCHANGED <<pipeVars, cacheVars, chunkVars>>

\* the first index_codebase call on an object
IndexCodebase == index_codebase({"init"}, "written", clock, issuedAdds, issuedDeletes)

\* index_codebase called again on the object of a completed call, at a later
\* time; issuedAdds and issuedDeletes then hold the store calls of this call
IndexCodebaseAgain ==
    /\ clock < MaxRuns
    /\ index_codebase({"written", "rewritten"}, "rewritten", clock + 1, {}, {})

IndexNext ==
    \/ \E f \in Files : \E c \in ContentsOf(f) : WriteFile(f, c)
    \/ \E f \in Files : RemoveFile(f)
    \/ \E cb \in Codebases, cc \in BOOLEAN, cch \in BOOLEAN : Construct(cb, cc, cch)
    \/ IndexCodebase

(***************************************************************************)
(* The per-package pipeline: release_notes.py (process_single_dependency,  *)
(* fetch_changelog) and dependency.py (DependencyRunner, ChangelogCache).  *)
(* A changelog as changelogs.get returns it is the sequence of its version *)
(* keys, in the order of the dict; a text is a sequence of lines.          *)
(***************************************************************************)
Packages == {"p", "q"}
Pipelines == {"release_notes", "dependency"}
Versions == 1..MaxVersion

\* the version pinned in the requirements file
CurrentVersion(package) == 1

\* the lookup gave no version: get_latest_version returned None
NoVersion == 0

NoStatus == "None"

\* the version dicts changelogs.get may return (empty: nothing found)
\* nothing found, the first release alone, or every release, newest first or
\* oldest first
Changelogs ==
    {<<>>, <<1>>, [i \in 1..MaxVersion |-> MaxVersion + 1 - i],
     [i \in 1..MaxVersion |-> i]}

\* changelogs.get either raises or returns
GetOutcomes == {[raises |-> TRUE, changelog |-> <<>>]}
               \cup {[raises |-> FALSE, changelog |-> l] : l \in Changelogs}

\* changelogs.get was not called
NoGet == [raises |-> FALSE, changelog |-> <<>>]

\* a key made of the two versions alone
NotesKey_without_package(package, current_version, latest_version) ==
    ToString(current_version) \o "_" \o ToString(latest_version)

\* f"{package}_{current_version}_{latest_version}"
NotesKey(package, current_version, latest_version) ==
    package \o "_" \o ToString(current_version) \o "_" \o ToString(latest_version)

\* f"{current_version}_{latest_version}"
RunnerKey(current_version, latest_version) ==
    ToString(current_version) \o "_" \o ToString(latest_version)

\* filter_changelog_by_version: the entries of versions in (current, latest]
RECURSIVE filter_changelog_by_version(_, _, _)
filter_changelog_by_version(changelog, current_version, latest_version) ==
    IF changelog = <<>> THEN <<>>
    ELSE LET version == Head(changelog)
             rest == filter_changelog_by_version(Tail(changelog),
                                                 current_version, latest_version)
         IN  IF version > current_version /\ version <= latest_version
             THEN <<"## " \o ToString(version)>> \o rest
             ELSE rest

\* dict with one key set
Put(cache, key, value) ==
    [k \in (DOMAIN cache) \cup {key} |-> IF k = key THEN value ELSE cache[k]]

\* fetch_changelog without the look at the cache
fetch_changelog_no_check(cache, package, current_version, latest_version, got) ==
    LET cache_key == NotesKey(package, current_version, latest_version)
        filtered_changelog ==
            filter_changelog_by_version(got.changelog, current_version,
                                        latest_version)
    IN  [status |-> IF got.raises THEN "FAILURE"
                    ELSE IF got.changelog = <<>> THEN "NOT_FOUND" ELSE "SUCCESS",
         changelog |-> IF got.raises THEN <<>> ELSE filtered_changelog,
         cache |-> IF got.raises \/ got.changelog = <<>> THEN cache
                   ELSE Put(cache, cache_key, filtered_changelog),
         hit |-> FALSE, called |-> TRUE,
         wrote |-> ~got.raises /\ got.changelog # <<>>, escaped |-> FALSE]

\* fetch_changelog that retrieves although the cache holds the key
fetch_changelog_retrieves_on_hit(cache, package, current_version, latest_version, got) ==
    [fetch_changelog_no_check(cache, package, current_version, latest_version, got)
        EXCEPT !.hit = NotesKey(package, current_version, latest_version)
                          \in DOMAIN cache]

\* fetch_changelog that saves its key before it calls changelogs.get
fetch_changelog_saves_first(cache, package, current_version, latest_version, got) ==
    LET cache_key == NotesKey(package, current_version, latest_version)
        filtered_changelog ==
            filter_changelog_by_version(got.changelog, current_version,
                                        latest_version)
    IN  IF cache_key \in DOMAIN cache
        THEN [status |-> "SUCCESS", changelog |-> cache[cache_key],
              cache |-> cache, hit |-> TRUE, called |-> FALSE, wrote |-> FALSE,
              escaped |-> FALSE]
        ELSE [status |-> IF got.raises THEN "FAILURE"
                         ELSE IF got.changelog = <<>> THEN "NOT_FOUND"
                         ELSE "SUCCESS",
              changelog |-> IF got.raises THEN <<>> ELSE filtered_changelog,
              cache |-> Put(cache, cache_key, <<>>),
              hit |-> FALSE, called |-> TRUE, wrote |-> TRUE, escaped |-> FALSE]

\* fetch_changelog that saves an empty text when nothing was found
fetch_changelog_caches_not_found(cache, package, current_version, latest_version, got) ==
    LET cache_key == NotesKey(package, current_version, latest_version)
        filtered_changelog ==
            filter_changelog_by_version(got.changelog, current_version,
                                        latest_version)
    IN  IF cache_key \in DOMAIN cache
        THEN [status |-> "SUCCESS", changelog |-> cache[cache_key],
              cache |-> cache, hit |-> TRUE, called |-> FALSE, wrote |-> FALSE,
              escaped |-> FALSE]
        ELSE IF got.raises
        THEN [status |-> "FAILURE", changelog |-> <<>>,
              cache |-> cache, hit |-> FALSE, called |-> TRUE, wrote |-> FALSE,
              escaped |-> FALSE]
        ELSE [status |-> IF got.changelog = <<>> THEN "NOT_FOUND" ELSE "SUCCESS",
              changelog |-> filtered_changelog,
              cache |-> Put(cache, cache_key, filtered_changelog),
              hit |-> FALSE, called |-> TRUE, wrote |-> TRUE, escaped |-> FALSE]

\* fetch_changelog that saves a cache holding its own entry alone, as if it
\* had loaded the file before the other tasks saved
fetch_changelog_saves_own_entry(cache, package, current_version, latest_version, got) ==
    LET cache_key == NotesKey(package, current_version, latest_version)
        filtered_changelog ==
            filter_changelog_by_version(got.changelog, current_version,
                                        latest_version)
    IN  IF cache_key \in DOMAIN cache
        THEN [status |-> "SUCCESS", changelog |-> cache[cache_key],
              cache |-> cache, hit |-> TRUE, called |-> FALSE, wrote |-> FALSE,
              escaped |-> FALSE]
        ELSE IF got.raises
        THEN [status |-> "FAILURE", changelog |-> <<>>,
              cache |-> cache, hit |-> FALSE, called |-> TRUE, wrote |-> FALSE,
              escaped |-> FALSE]
        ELSE IF got.changelog = <<>>
        THEN [status |-> "NOT_FOUND", changelog |-> <<>>,
              cache |-> cache, hit |-> FALSE, called |-> TRUE, wrote |-> FALSE,
              escaped |-> FALSE]
        ELSE [status |-> "SUCCESS", changelog |-> filtered_changelog,
              cache |-> Put(EmptyMap, cache_key, filtered_changelog),
              hit |-> FALSE, called |-> TRUE, wrote |-> TRUE, escaped |-> FALSE]

\* fetch_changelog without its except clause
fetch_changelog_no_except(cache, package, current_version, latest_version, got) ==
    LET cache_key == NotesKey(package, current_version, latest_version)
    IN  IF cache_key \in DOMAIN cache
        THEN [status |-> "SUCCESS", changelog |-> cache[cache_key],
              cache |-> cache, hit |-> TRUE, called |-> FALSE, wrote |-> FALSE,
              escaped |-> FALSE]
        ELSE [fetch_changelog_no_check(cache, package, current_version,
                                       latest_version, got)
                 EXCEPT !.escaped = got.raises]

\* fetch_changelog of release_notes.py.  `got` is what changelogs.get does if it
\* is called.  The result: the ChangelogRetrievalResult, the cache file, whether
\* the key was found, whether changelogs.get and save_cache were called, and
\* whether an exception left the function.
fetch_changelog(cache, package, current_version, latest_version, got) ==
    LET cache_key == NotesKey(package, current_version, latest_version)
        filtered_changelog ==
            filter_changelog_by_version(got.changelog, current_version,
                                        latest_version)
    IN  IF cache_key \in DOMAIN cache
        THEN [status |-> "SUCCESS", changelog |-> cache[cache_key],
              cache |-> cache, hit |-> TRUE, called |-> FALSE, wrote |-> FALSE,
              escaped |-> FALSE]
        ELSE IF got.raises
        THEN [status |-> "FAILURE", changelog |-> <<>>,
              cache |-> cache, hit |-> FALSE, called |-> TRUE, wrote |-> FALSE,
              escaped |-> FALSE]
        ELSE IF got.changelog = <<>>
        THEN [status |-> "NOT_FOUND", changelog |-> <<>>,
              cache |-> cache, hit |-> FALSE, called |-> TRUE, wrote |-> FALSE,
              escaped |-> FALSE]
        ELSE [status |-> "SUCCESS", changelog |-> filtered_changelog,
              cache |-> Put(cache, cache_key, filtered_changelog),
              hit |-> FALSE, called |-> TRUE, wrote |-> TRUE, escaped |-> FALSE]

\* ChangelogCache.contains, get and set on the file of one package
contains(file, current_version, latest_version) ==
    RunnerKey(current_version, latest_version) \in DOMAIN file

get(file, current_version, latest_version) ==
    IF RunnerKey(current_version, latest_version) \in DOMAIN file
    THEN file[RunnerKey(current_version, latest_version)]
    ELSE None

\* ChangelogCache.set that writes a file holding the one key
set_forgets_file(file, current_version, latest_version, changelog) ==
    Put(EmptyMap, RunnerKey(current_version, latest_version), changelog)

set(file, current_version, latest_version, changelog) ==
    Put(file, RunnerKey(current_version, latest_version), changelog)

\* DependencyRunner._filter_changelog_by_version reads self._changelog, not
\* the dict _fetch_changelog has just retrieved: None has no items()
RaisesAttributeError(self_changelog) == self_changelog = None

\* _fetch_changelog that looks in the cache whatever USE_CACHE says
_fetch_changelog_ignores_flag(file, self_status, self_changelog, current_version, latest_version, got, caching) ==
    IF contains(file, current_version, latest_version)
    THEN [status |-> self_status, changelog |-> self_changelog,
          cache |-> file, hit |-> TRUE, called |-> FALSE, wrote |-> FALSE,
          escaped |-> FALSE]
    ELSE IF got.raises
    THEN [status |-> "FAILURE", changelog |-> self_changelog,
          cache |-> file, hit |-> FALSE, called |-> TRUE, wrote |-> FALSE,
          escaped |-> FALSE]
    ELSE IF got.changelog = <<>>
    THEN [status |-> "NOT_FOUND", changelog |-> self_changelog,
          cache |-> file, hit |-> FALSE, called |-> TRUE, wrote |-> FALSE,
          escaped |-> FALSE]
    ELSE IF RaisesAttributeError(self_changelog)
    THEN [status |-> "FAILURE", changelog |-> self_changelog,
          cache |-> file, hit |-> FALSE, called |-> TRUE, wrote |-> FALSE,
          escaped |-> FALSE]
    ELSE LET filtered_changelog ==
                 filter_changelog_by_version(self_changelog, current_version,
                                             latest_version)
         IN  [status |-> "SUCCESS", changelog |-> filtered_changelog,
              cache |-> IF caching
                        THEN set(file, current_version, latest_version,
                                 filtered_changelog)
                        ELSE file,
              hit |-> FALSE, called |-> TRUE, wrote |-> caching,
              escaped |-> FALSE]

\* DependencyRunner._fetch_changelog.  The value it returns on a cache hit is
\* dropped by run; what counts are self._changelog_retrieval_status and
\* self._changelog.
_fetch_changelog(file, self_status, self_changelog, current_version, latest_version, got, caching) ==
    IF caching /\ contains(file, current_version, latest_version)
    THEN [status |-> self_status, changelog |-> self_changelog,
          cache |-> file, hit |-> TRUE, called |-> FALSE, wrote |-> FALSE,
          escaped |-> FALSE]
    ELSE IF got.raises
    THEN [status |-> "FAILURE", changelog |-> self_changelog,
          cache |-> file, hit |-> FALSE, called |-> TRUE, wrote |-> FALSE,
          escaped |-> FALSE]
    ELSE IF got.changelog = <<>>
    THEN [status |-> "NOT_FOUND", changelog |-> self_changelog,
          cache |-> file, hit |-> FALSE, called |-> TRUE, wrote |-> FALSE,
          escaped |-> FALSE]
    ELSE IF RaisesAttributeError(self_changelog)
    THEN [status |-> "FAILURE", changelog |-> self_changelog,
          cache |-> file, hit |-> FALSE, called |-> TRUE, wrote |-> FALSE,
          escaped |-> FALSE]
    ELSE LET filtered_changelog ==
                 filter_changelog_by_version(self_changelog, current_version,
                                             latest_version)
         IN  [status |-> "SUCCESS", changelog |-> filtered_changelog,
              cache |-> IF caching
                        THEN set(file, current_version, latest_version,
                                 filtered_changelog)
                        ELSE file,
              hit |-> FALSE, called |-> TRUE, wrote |-> caching,
              escaped |-> FALSE]

\* _handle_up_to_date, and line 290 of release_notes.py
UpToDate(latest_version, current_version) ==
    latest_version = NoVersion \/ latest_version <= current_version

NewTask == [pc |-> "pending", latest_version |-> NoVersion, status |-> NoStatus,
            changelog |-> None, summary |-> None, got |-> NoGet, hit |-> FALSE,
            gets |-> 0, sets |-> 0, advances |-> 0, summaries |-> 0,
            looked |-> FALSE]

\* the JSON files of the two changelog caches
NotesFile == "changelog_cache.json"
RunnerFile(package) == package \o ".json"
CacheFiles == {NotesFile} \cup {RunnerFile(p) : p \in Packages}

\* the task reads its cache file: fetch_changelog always, _fetch_changelog
\* when USE_CACHE is set
ReadsCache(pipeline, caching) == pipeline = "release_notes" \/ caching

\* json.load raises on a file that is not valid JSON; load_cache and
\* ChangelogCache.load are called outside the try of the fetch
LoadRaises(pipeline, caching, package, bad) ==
    /\ ReadsCache(pipeline, caching)
    /\ (IF pipeline = "release_notes" THEN NotesFile ELSE RunnerFile(package))
           \in bad

\* the keys of the caches: the pinned version of a package is fixed
SetKeys == Pipelines \X Packages \X Versions

PipeInit ==
    /\ impl = "release_notes"
    /\ use_cache = TRUE
    /\ gather = "idle"
    /\ checks = 0
    /\ ignored = {}
    /\ task = [p \in Packages |-> NewTask]
    /\ overall = 0
    /\ notesCache = EmptyMap
    /\ runnerCache = [p \in Packages |-> EmptyMap]
    /\ setCalls = [k \in SetKeys |-> 0]
    /\ corrupt = {}

\* check_updates.main up to asyncio.gather: one task per package of the
\* requirements file
StartCheck(pipeline, caching, ign) ==
    /\ gather \in {"idle", "returned", "raised"}
    /\ checks < MaxChecks
    \* one installation: the same program and the same settings at every run;
    \* release_notes.py does not read USE_CACHE
    /\ checks > 0 => pipeline = impl /\ caching = use_cache
    /\ pipeline = "release_notes" => caching
    /\ checks' = checks + 1
    /\ impl' = pipeline
    /\ use_cache' = caching
    /\ ignored' = ign
    /\ task' = [p \in Packages |-> NewTask]
    /\ overall' = 0
    /\ gather' = "running"
    /\ UNCHANGED <<notesCache, runnerCache, setCalls, corrupt>>
    /\ UNCHANGED <<indexVars, cacheVars, chunkVars>>

\* the task runs from its start to its first await: the ignored check of
\* process_single_dependency and of DependencyRunner.run
TaskStart(p) ==
    /\ gather = "running"
    /\ task[p].pc = "pending"
    /\ IF p \in ignored
       THEN /\ task' = [task EXCEPT ![p].pc = "ignored", ![p].advances = @ + 1]
            /\ overall' = overall + 1
       ELSE /\ task' = [task EXCEPT ![p].pc = "lookup"]
            /\ overall' = overall
    /\ UNCHANGED <<impl, use_cache, gather, checks, ignored, notesCache,
                   runnerCache, setCalls, corrupt>>
    /\ UNCHANGED <<indexVars, cacheVars, chunkVars>>

\* AfterFetch with a summary requested whatever the status
AfterFetch_summarizes_any_status(t, latest, got, r) ==
    [t EXCEPT !.latest_version = latest,
              !.status = r.status,
              !.changelog = r.changelog,
              !.got = IF r.called THEN got ELSE NoGet,
              !.hit = r.hit,
              !.gets = @ + (IF r.called THEN 1 ELSE 0),
              !.sets = @ + (IF r.wrote THEN 1 ELSE 0),
              !.pc = IF r.escaped THEN "raised" ELSE "summarizing",
              !.summaries = @ + (IF ~r.escaped THEN 1 ELSE 0)]

\* AfterFetch with the overall bar left alone on FAILURE and NOT_FOUND
AfterFetch_failure_not_counted(t, latest, got, r) ==
    [t EXCEPT !.latest_version = latest,
              !.status = r.status,
              !.changelog = r.changelog,
              !.got = IF r.called THEN got ELSE NoGet,
              !.hit = r.hit,
              !.gets = @ + (IF r.called THEN 1 ELSE 0),
              !.sets = @ + (IF r.wrote THEN 1 ELSE 0),
              !.pc = IF r.escaped THEN "raised"
                     ELSE IF r.status = "SUCCESS" THEN "summarizing"
                     ELSE "completed",
              !.summaries = @ + (IF ~r.escaped /\ r.status = "SUCCESS"
                                 THEN 1 ELSE 0)]

\* the state of the task once its changelog is fetched: summarize_changes
\* called and awaited on SUCCESS, the task completed otherwise
AfterFetch(t, latest, got, r) ==
    [t EXCEPT !.latest_version = latest,
              !.status = r.status,
              !.changelog = r.changelog,
              !.got = IF r.called THEN got ELSE NoGet,
              !.hit = r.hit,
              !.gets = @ + (IF r.called THEN 1 ELSE 0),
              !.sets = @ + (IF r.wrote THEN 1 ELSE 0),
              !.pc = IF r.escaped THEN "raised"
                     ELSE IF r.status = "SUCCESS" THEN "summarizing"
                     ELSE "completed",
              !.advances = @ + (IF ~r.escaped /\ r.status # "SUCCESS"
                                THEN 1 ELSE 0),
              !.summaries = @ + (IF ~r.escaped /\ r.status = "SUCCESS"
                                 THEN 1 ELSE 0)]

\* get_latest_version returns `latest` (NoVersion: an error or no such package)
\* and the task runs to its next await: the up-to-date check and, with no
\* await in between, fetch_changelog or _fetch_changelog as a whole
VersionReturned(p, latest, got) ==
    /\ gather = "running"
    /\ task[p].pc = "lookup"
    /\ IF UpToDate(latest, CurrentVersion(p))
       THEN /\ got = NoGet
            /\ task' = [task EXCEPT ![p].latest_version = latest,
                                    ![p].pc = "up_to_date",
                                    ![p].advances = @ + 1]
            /\ overall' = overall + 1
            /\ UNCHANGED <<gather, notesCache, runnerCache, setCalls>>
       ELSE IF LoadRaises(impl, use_cache, p, corrupt)
       THEN /\ got = NoGet
            /\ task' = [task EXCEPT ![p].latest_version = latest,
                                    ![p].looked = TRUE,
                                    ![p].pc = "load_raised"]
            /\ overall' = overall
            /\ gather' = "raised"
            /\ UNCHANGED <<notesCache, runnerCache, setCalls>>
       ELSE \E r \in {IF impl = "release_notes"
                      THEN fetch_changelog(notesCache, p, CurrentVersion(p),
                                           latest, got)
                      ELSE _fetch_changelog(runnerCache[p], task[p].status,
                                            task[p].changelog, CurrentVersion(p),
                                            latest, got, use_cache)} :
            /\ r.called \/ got = NoGet
            /\ task' = [task EXCEPT
                           ![p] = [AfterFetch(@, latest, got, r) EXCEPT
                                      !.looked = ReadsCache(impl, use_cache)]]
            /\ overall' = overall + (task'[p].advances - task[p].advances)
            /\ gather' = IF r.escaped THEN "raised" ELSE gather
            /\ notesCache' = IF impl = "release_notes" THEN r.cache
                             ELSE notesCache
            /\ runnerCache' = IF impl = "dependency"
                              THEN [runnerCache EXCEPT ![p] = r.cache]
                              ELSE runnerCache
            /\ setCalls' = IF r.wrote
                           THEN [setCalls EXCEPT
                                    ![<<impl, p, latest>>] = @ + 1]
                           ELSE setCalls
    /\ UNCHANGED <<impl, use_cache, checks, ignored, corrupt>>
    /\ UNCHANGED <<indexVars, cacheVars, chunkVars>>

\* summarize_changes returns, or raises (the OpenAI call, the chroma query or
\* the read of the requirements file fails); nothing catches the exception
SummarizeReturned(p, raises) ==
    /\ gather = "running"
    /\ task[p].pc = "summarizing"
    /\ IF raises
       THEN /\ task' = [task EXCEPT ![p].pc = "raised"]
            /\ overall' = overall
            /\ gather' = "raised"
       ELSE /\ task' = [task EXCEPT ![p].pc = "completed",
                                    ![p].summary = <<"summary">> \o task[p].changelog,
                                    ![p].advances = @ + 1]
            /\ overall' = overall + 1
            /\ gather' = gather
    /\ UNCHANGED <<impl, use_cache, checks, ignored, notesCache, runnerCache,
                   setCalls, corrupt>>
    /\ UNCHANGED <<indexVars, cacheVars, chunkVars>>

Terminal(p) == task[p].pc \in {"ignored", "up_to_date", "completed"}

\* between runs a cache file is left holding invalid JSON (a write cut short,
\* an edit by hand); at most one file in a behaviour
CorruptFile(file) ==
    /\ gather \in {"idle", "returned", "raised"}
    /\ corrupt = {}
    /\ corrupt' = {file}
    /\ UNCHANGED <<impl, use_cache, gather, checks, ignored, task, overall,
                   notesCache, runnerCache, setCalls>>
    /\ UNCHANGED <<indexVars, cacheVars, chunkVars>>

\* asyncio.gather returns once every task has returned
GatherReturns ==
    /\ gather = "running"
    /\ \A p \in Packages : Terminal(p)
    /\ gather' = "returned"
    /\ UNCHANGED <<impl, use_cache, checks, ignored, task, overall, notesCache,
                   runnerCache, setCalls, corrupt>>
    /\ UNCHANGED <<indexVars, cacheVars, chunkVars>>

PipeNext ==
    \/ \E i \in Pipelines, c \in BOOLEAN, ign \in SUBSET Packages :
          StartCheck(i, c, ign)
    \/ \E p \in Packages : TaskStart(p)
    \/ \E p \in Packages, v \in Versions \cup {NoVersion}, g \in GetOutcomes :
          VersionReturned(p, v, g)
    \/ \E p \in Packages, raises \in BOOLEAN : SummarizeReturned(p, raises)
    \/ GatherReturns
    \/ \E file \in CacheFiles : CorruptFile(file)

(***************************************************************************)
(* ChangelogCache of cache.py on its own: calls of set, get and contains   *)
(* in any order on the files of runnerCache.  Every method loads the file  *)
(* of the package; only set saves it.                                      *)
(***************************************************************************)
\* the versions and texts the calls are made with
CacheVersions == {1, 2}
CacheTexts == {<<>>, <<"## 2">>}

NoCall == [op |-> "none", package |-> "", from |-> 0, to |-> 0, value |-> None]

CacheInit ==
    /\ cacheModel = EmptyMap
    /\ cacheReturned = NoCall
    /\ cacheOps = 0

CacheSet(p, c, l, text) ==
    /\ cacheOps < MaxCacheOps
    /\ cacheOps' = cacheOps + 1
    /\ runnerCache' = [runnerCache EXCEPT ![p] = set(@, c, l, text)]
    /\ cacheModel' = Put(cacheModel, <<p, c, l>>, text)
    /\ cacheReturned' = [op |-> "set", package |-> p, from |-> c, to |-> l,
                         value |-> None]
    /\ UNCHANGED <<impl, use_cache, gather, checks, ignored, task, overall,
                   notesCache, setCalls, corrupt>>
    /\ UNCHANGED <<indexVars, chunkVars>>

CacheGet(p, c, l) ==
    /\ cacheReturned' = [op |-> "get", package |-> p, from |-> c, to |-> l,
                         value |-> get(runnerCache[p], c, l)]
    /\ UNCHANGED <<cacheModel, cacheOps>>
    /\ UNCHANGED <<pipeVars, indexVars, chunkVars>>

CacheContains(p, c, l) ==
    /\ cacheReturned' = [op |-> "contains", package |-> p, from |-> c, to |-> l,
                         value |-> IF contains(runnerCache[p], c, l)
                                   THEN <<"True">> ELSE <<"False">>]
    /\ UNCHANGED <<cacheModel, cacheOps>>
    /\ UNCHANGED <<pipeVars, indexVars, chunkVars>>

CacheNext ==
    \/ \E p \in Packages, c \in CacheVersions, l \in CacheVersions,
          text \in CacheTexts : CacheSet(p, c, l, text)
    \/ \E p \in Packages, c \in CacheVersions, l \in CacheVersions :
          CacheGet(p, c, l)
    \/ \E p \in Packages, c \in CacheVersions, l \in CacheVersions :
          CacheContains(p, c, l)

(***************************************************************************)
(* DependencyRunner over a cache directory that already holds an entry:    *)
(* one earlier ChangelogCache.set, then runs of the runner alone.          *)
(***************************************************************************)
\* ChangelogCache.set called, before the first run, for a key of the package
EarlierSet(p, l, text) ==
    /\ checks = 0
    /\ cacheOps = 0
    /\ CacheSet(p, CurrentVersion(p), l, text)

\* DependencyRunner over cache files an earlier use has written.  No task of
\* a runner awaits summarize_changes: its status is never SUCCESS at
\* _handle_changelog_result.
RunnerNext ==
    \/ \E p \in Packages, l \in CacheVersions, text \in CacheTexts :
          EarlierSet(p, l, text)
    \/ \E c \in BOOLEAN, ign \in SUBSET Packages : StartCheck("dependency", c, ign)
    \/ \E p \in Packages : TaskStart(p)
    \/ \E p \in Packages, v \in Versions \cup {NoVersion}, g \in GetOutcomes :
          VersionReturned(p, v, g)
    \/ GatherReturns

(***************************************************************************)
(* _recursive_chunk_with_overlap step by step: one action per test of the  *)
(* while loop.                                                             *)
(***************************************************************************)
Alphabet == <<"a", "b", "c", "d", "e", "f", "g", "h", "i", "j", "k", "l">>

\* the texts handed to the chunker: the character at index i is the i-th letter
Text(n) == SubSeq(Alphabet, 1, n)

ChunkInit ==
    /\ chText = <<>>
    /\ chSize = 1
    /\ chOverlap = 0
    /\ chStart = 0
    /\ chChunks = <<>>
    /\ chPc = "idle"

\* start += max_chunk_size - overlap, without the overlap
NextStart_stays(start, size, ovl) == start

\* start += max_chunk_size - overlap
NextStart(start, size, ovl) == start + (size - ovl)

\* the call, up to the first test of the loop
ChunkCall(n, size, ovl) ==
    /\ chPc \in {"idle", "returned"}
    /\ chText' = Text(n)
    /\ chSize' = size
    /\ chOverlap' = ovl
    /\ chStart' = 0
    /\ IF n <= size
       THEN chChunks' = <<Text(n)>> /\ chPc' = "returned"
       ELSE chChunks' = <<>> /\ chPc' = "loop"
    /\ UNCHANGED <<pipeVars, indexVars, cacheVars>>

\* one test of `while start < len(text)` and the body or the return after it
ChunkStep ==
    /\ chPc = "loop"
    /\ Len(chChunks) < MaxChunks
    /\ IF chStart < Len(chText)
       THEN /\ chChunks' = Append(chChunks,
                                  Slice(chText, chStart,
                                        Min(chStart + chSize, Len(chText))))
            /\ chStart' = NextStart(chStart, chSize, chOverlap)
            /\ chPc' = chPc
       ELSE /\ chPc' = "returned"
            /\ UNCHANGED <<chChunks, chStart>>
    /\ UNCHANGED <<chText, chSize, chOverlap>>
    /\ UNCHANGED <<pipeVars, indexVars, cacheVars>>

ChunkNext ==
    \/ \E n \in 0..MaxTextLen, size \in 1..MaxChunkSize, ovl \in 0..MaxOverlap :
          ChunkCall(n, size, ovl)
    \/ ChunkStep

Init == IndexInit /\ PipeInit /\ CacheInit /\ ChunkInit

SpecCache == Init /\ [][CacheNext]_vars

\* the loop is sequential code: its next step is always taken
SpecChunker == Init /\ [][ChunkNext]_vars /\ WF_vars(ChunkStep)

SpecPipeline == Init /\ [][PipeNext]_vars

SpecRunner == Init /\ [][RunnerNext]_vars

SpecIndex == Init /\ [][IndexNext]_vars

\* one codebase indexed by objects that are used for more than one
\* index_codebase call
ReuseNext ==
    \/ \E f \in FilesOf(MainCodebase) : \E c \in ContentsOf(f) : WriteFile(f, c)
    \/ \E f \in FilesOf(MainCodebase) : RemoveFile(f)
    \/ Construct(MainCodebase, FALSE, FALSE)
    \/ IndexCodebase
    \/ IndexCodebaseAgain

SpecReuse == Init /\ [][ReuseNext]_vars

(***************************************************************************)
(* Properties of ChromaIndex.                                              *)
(***************************************************************************)
CurrentHash(f) == _generate_file_content_hash(StripNewlines(scanned[f]))

\* the classification of the scanned files against the index as loaded
ScannedPaths == {f \in DOMAIN scanned : scanned[f] # Absent}
AddedPaths == {f \in ScannedPaths : f \notin DOMAIN loadedIndex}
ModifiedPaths == {f \in ScannedPaths : /\ f \in DOMAIN loadedIndex
                                       /\ loadedIndex[f].file_hash # CurrentHash(f)}
UnchangedPaths == {f \in ScannedPaths : /\ f \in DOMAIN loadedIndex
                                        /\ loadedIndex[f].file_hash = CurrentHash(f)}
RemovedPaths == (DOMAIN loadedIndex) \ ScannedPaths

ScheduledPaths == {files_to_index[i].file_path : i \in 1..Len(files_to_index)}

\* index_codebase was called on the object, and it got as far as
\* _get_files_to_delete
Scanned == pc \in {"written", "aborted_add", "aborted_delete"}
Resolved == pc \in {"written", "aborted_delete"}

\* the object loaded the index that a completed run over the same codebase
\* persisted, and the codebase's files are as that run read them
SecondRun ==
    /\ Scanned
    /\ ~cleared
    /\ prevRun # NoRun
    /\ prevRun.codebase = codebase
    /\ prevRun.corpus = scanned

\* C1: a run that loads the index persisted by a completed run over the same,
\* unchanged codebase schedules no file for indexing or deletion and sends no
\* add and no delete to the store.
C1_Idempotence ==
    SecondRun =>
        /\ files_to_index = <<>>
        /\ files_to_delete = {}
        /\ issuedAdds = {}
        /\ issuedDeletes = {}
        /\ pc = "written"

C1_Witness ==
    /\ SecondRun
    /\ pc = "written"
    /\ ScannedPaths # {}

\* C2: the scheduled-for-indexing list holds exactly the added and the modified
\* paths, each once; the scheduled-for-deletion set holds exactly the removed
\* paths; the two never share a path, and unchanged paths are in neither.
C2_Partition ==
    Scanned =>
        /\ ScheduledPaths = AddedPaths \cup ModifiedPaths
        /\ Len(files_to_index) = Cardinality(ScheduledPaths)
        /\ ScheduledPaths \cap UnchangedPaths = {}
        /\ Resolved =>
              /\ files_to_delete = RemovedPaths
              /\ files_to_delete \cap ScheduledPaths = {}
              /\ files_to_delete \cap UnchangedPaths = {}

C2_Witness ==
    /\ pc = "written"
    /\ ModifiedPaths # {}
    /\ RemovedPaths # {}

\* the records of the run's collection that name file f
StoredFor(f) == {r \in chroma[CollectionName(codebase)] : r.file_path = f}

\* the chunk ids of the content of f as scanned
CurrentChunkIds(f) ==
    LET chunks == _chunk_file_content(StripNewlines(scanned[f]))
    IN  {_generate_file_content_hash(chunks[i]) : i \in 1..Len(chunks)}

\* C3: after a completed run the store holds, for a modified file, no chunk of
\* the old content: every record naming the file is a chunk of the new content.
C3_NoStaleChunks ==
    pc = "written" =>
        \A f \in ModifiedPaths : \A r \in StoredFor(f) : r.id \in CurrentChunkIds(f)

\* C4: after a completed run, a path that was in the loaded index and is absent
\* from the scan names no record of the run's collection and has no entry in
\* the persisted index.
C4_DeletionComplete ==
    pc = "written" =>
        \A f \in RemovedPaths : StoredFor(f) = {} /\ f \notin DOMAIN indexFile

C4_Witness ==
    /\ pc = "written"
    /\ \E f \in RemovedPaths \cap FilesOf(codebase) :
          /\ f \in issuedDeletes
          /\ lastAdded[f] # None

\* C5: after a completed run every entry of the persisted index holds the hash
\* of the content last added to the store for its path, which is the hash of
\* the file's content as scanned.
C5_IndexFresh ==
    pc = "written" =>
        \A f \in DOMAIN indexFile :
            /\ f \in ScannedPaths
            /\ indexFile[f].file_hash = CurrentHash(f)
            /\ indexFile[f].file_hash = lastAdded[f]

(***************************************************************************)
(* Claims about the per-package pipeline (SpecPipeline).                   *)
(***************************************************************************)
\* the cache of the running pipeline holds the key of package p, version v
Cached(pipeline, p, v) ==
    IF pipeline = "release_notes"
    THEN NotesKey(p, CurrentVersion(p), v) \in DOMAIN notesCache
    ELSE contains(runnerCache[p], CurrentVersion(p), v)

\* the text the cache holds for the key
CachedText(pipeline, p, v) ==
    IF pipeline = "release_notes"
    THEN notesCache[NotesKey(p, CurrentVersion(p), v)]
    ELSE get(runnerCache[p], CurrentVersion(p), v)

\* changelogs.get was called for p and raised
RetrievalRaised(p) == task[p].gets = 1 /\ task[p].got.raises

\* changelogs.get was called for p and returned a non-empty changelog
RetrievalReturned(p) ==
    task[p].gets = 1 /\ ~task[p].got.raises /\ task[p].got.changelog # <<>>

\* C6: over any number of fetch attempts, a key of the cache is written at
\* most once, and it is written exactly once if and only if the cache holds
\* it: after the first write every attempt finds the key and writes nothing.
C6_AtMostOneSet ==
    \A k \in SetKeys :
        /\ setCalls[k] <= 1
        /\ setCalls[k] = 1 <=> Cached(k[1], k[2], k[3])

\* a later run found the key an earlier run wrote
C6_Witness ==
    /\ checks = 2
    /\ \E p \in Packages :
          /\ task[p].hit
          /\ setCalls[<<impl, p, task[p].latest_version>>] = 1

\* C7: a task that found its key in the cache when it looked never calls
\* changelogs.get and never writes the cache.
C7_HitSkipsRetrieval ==
    \A p \in Packages : task[p].hit => task[p].gets = 0 /\ task[p].sets = 0

\* a task went on from a cache hit
C7_Witness ==
    \E p \in Packages :
        /\ task[p].hit
        /\ task[p].pc \in {"summarizing", "completed"}
        /\ task[p].changelog = CachedText(impl, p, task[p].latest_version)

\* C8: a task whose retrieval raised ends Errored with status FAILURE, has
\* advanced the overall bar once and has written no cache entry; it raises
\* nothing into the gather; and a run that returns has every task ended and
\* the overall count at the number of tasks.
C8_IsolatedFailure ==
    /\ \A p \in Packages :
          RetrievalRaised(p) =>
              /\ task[p].pc = "completed"
              /\ task[p].status = "FAILURE"
              /\ task[p].advances = 1
              /\ task[p].sets = 0
    /\ gather = "returned" =>
          /\ \A p \in Packages : Terminal(p)
          /\ overall = Cardinality(Packages)

\* the run returned with one task Errored and its sibling Done with a summary
C8_Witness ==
    /\ gather = "returned"
    /\ overall = Cardinality(Packages)
    /\ \E p, q \in Packages :
          /\ RetrievalRaised(p)
          /\ task[q].status = "SUCCESS"
          /\ task[q].pc = "completed"
          /\ task[q].summary # None

\* C9: no exception leaves a task, so the gather never raises.
C9_NoEscape ==
    /\ gather # "raised"
    /\ \A p \in Packages : task[p].pc # "raised"

\* C10: when the cache has no entry for the key and changelogs.get returns a
\* non-empty changelog, the status becomes SUCCESS, the changelog is the text
\* of the versions in (current, latest], and with caching that text is in the
\* cache under the task's key.
C10_SuccessRecorded ==
    \A p \in Packages :
        RetrievalReturned(p) =>
            /\ task[p].status = "SUCCESS"
            /\ task[p].changelog =
                  filter_changelog_by_version(task[p].got.changelog,
                                              CurrentVersion(p),
                                              task[p].latest_version)
            /\ use_cache =>
                  /\ Cached(impl, p, task[p].latest_version)
                  /\ CachedText(impl, p, task[p].latest_version) = task[p].changelog

\* C10 for release_notes.py alone
C10_NotesOnly == impl = "release_notes" => C10_SuccessRecorded

\* C11: summarize_changes is called for a task exactly when its retrieval
\* status is SUCCESS; a task that ended with FAILURE or NOT_FOUND has had no
\* summarization call and has no summary.
C11_SummarizeOnlyOnSuccess ==
    \A p \in Packages :
        /\ task[p].summaries = (IF task[p].status = "SUCCESS" THEN 1 ELSE 0)
        /\ (Terminal(p) /\ task[p].status \in {"FAILURE", "NOT_FOUND"}) =>
              task[p].summaries = 0 /\ task[p].summary = None

\* a run returned with one task summarized and one ended without a summary
C11_Witness ==
    /\ gather = "returned"
    /\ \E p, q \in Packages :
          /\ task[p].status = "SUCCESS" /\ task[p].summaries = 1
          /\ task[p].summary # None
          /\ task[q].status \in {"FAILURE", "NOT_FOUND"} /\ task[q].summaries = 0

\* the version lookup of p has returned
LookedUp(p) == task[p].pc \notin {"pending", "lookup", "ignored"}

\* C12: a version lookup that failed (no version came back) leaves the task
\* Errored with status FAILURE, not Skipped as up to date.
C12_LookupFailureIsFailure ==
    \A p \in Packages :
        (LookedUp(p) /\ task[p].latest_version = NoVersion) =>
            task[p].status = "FAILURE" /\ task[p].pc # "up_to_date"

\* the state of the task state machine a task record stands for; Fetching is
\* passed within one step, since the fetch has no await
TaskState(t) ==
    CASE t.pc \in {"pending", "lookup"} -> "Pending"
      [] t.pc \in {"ignored", "up_to_date"} -> "Skipped"
      [] t.pc = "summarizing" -> IF t.hit THEN "Cached" ELSE "Summarizing"
      [] t.pc = "completed" ->
            IF t.status \in {"FAILURE", "NOT_FOUND"} THEN "Errored" ELSE "Done"
      [] OTHER -> "Raised"

\* the steps of the state machine, Fetching folded into the step that passes it
TaskEdges ==
    {<<"Pending", "Pending">>, <<"Pending", "Skipped">>, <<"Pending", "Cached">>,
     <<"Pending", "Summarizing">>, <<"Pending", "Errored">>, <<"Pending", "Done">>,
     <<"Cached", "Done">>, <<"Summarizing", "Done">>}

C13_Step ==
    checks' = checks =>
        \A p \in Packages :
            /\ task'[p] # task[p] =>
                  <<TaskState(task[p]), TaskState(task'[p])>> \in TaskEdges
            /\ task'[p].pc = "ignored" => task[p].pc \in {"pending", "ignored"}

C13_Skipped ==
    \A p \in Packages :
        TaskState(task[p]) = "Skipped" =>
            /\ ~task[p].looked /\ ~task[p].hit
            /\ task[p].gets = 0 /\ task[p].sets = 0 /\ task[p].summaries = 0
            /\ task[p].pc = "ignored" => task[p].latest_version = NoVersion

\* C13: every step of a task is a step of Pending -> Fetching -> {Cached |
\* Summarizing} -> Done, Fetching -> Errored or Pending -> Skipped; a task in
\* Done, Errored or Skipped changes no more; an ignored task has looked up no
\* version, and a Skipped task has read no cache, retrieved nothing and
\* summarized nothing.
C13_StateMachine == [][C13_Step]_vars /\ []C13_Skipped

\* C13 with the tasks that ended by an exception left out
C13_WithoutRaise ==
    [][(\A p \in Packages : TaskState(task'[p]) # "Raised") => C13_Step]_vars
       /\ []C13_Skipped

C14_Counts ==
    /\ \A p \in Packages : task[p].advances = (IF Terminal(p) THEN 1 ELSE 0)
    /\ overall = Cardinality({p \in Packages : Terminal(p)})
    /\ overall <= Cardinality(Packages)

\* C14: within a run the overall count never decreases; each task has advanced
\* it once if it is terminal and not at all before, so the count is the number
\* of terminal tasks, never above the number of tasks and equal to it exactly
\* when every task is terminal.
C14_Progress == []C14_Counts /\ [][checks' = checks => overall' >= overall]_vars

\* a run in which no task succeeded has the count at the number of tasks
C14_Witness ==
    /\ overall = Cardinality(Packages)
    /\ \E p, q \in Packages :
          /\ task[p].pc = "ignored"
          /\ task[q].status = "NOT_FOUND"

\* C15: the ChangelogCache is a map: get returns the text of the last set of
\* exactly that key and None for a key never set, contains is true exactly
\* for the keys set, and neither changes a file; a set changes no other key.
C15_CacheIsMap ==
    /\ \A p \in Packages, c \in CacheVersions, l \in CacheVersions :
          /\ contains(runnerCache[p], c, l) <=> <<p, c, l>> \in DOMAIN cacheModel
          /\ get(runnerCache[p], c, l) =
                (IF <<p, c, l>> \in DOMAIN cacheModel
                 THEN cacheModel[<<p, c, l>>] ELSE None)
    /\ cacheReturned.op = "get" =>
          cacheReturned.value =
             (IF <<cacheReturned.package, cacheReturned.from, cacheReturned.to>>
                    \in DOMAIN cacheModel
              THEN cacheModel[<<cacheReturned.package, cacheReturned.from,
                                cacheReturned.to>>]
              ELSE None)
    /\ cacheReturned.op = "contains" =>
          (cacheReturned.value = <<"True">> <=>
             <<cacheReturned.package, cacheReturned.from, cacheReturned.to>>
                \in DOMAIN cacheModel)

\* a get after three sets, two of them on different keys of one package
C15_Witness ==
    /\ cacheOps = MaxCacheOps
    /\ cacheReturned.op = "get"
    /\ cacheReturned.value # None
    /\ \E p \in Packages : Cardinality(DOMAIN runnerCache[p]) = 2

\* the chunks as the claim gives them: window i starts at i * step
ChunksByFormula(text, size, ovl) ==
    IF Len(text) <= size THEN <<text>>
    ELSE LET step == size - ovl
             n == (Len(text) + step - 1) \div step
         IN  [i \in 1..n |->
                 SubSeq(text, (i - 1) * step + 1,
                        Min((i - 1) * step + size, Len(text)))]

\* what C16 says of a returned call, but for the chunks being non-empty
C16_Result ==
    (chPc = "returned" /\ chOverlap < chSize) =>
        /\ chChunks = ChunksByFormula(chText, chSize, chOverlap)
        /\ _recursive_chunk_with_overlap(chText, chSize, chOverlap) = chChunks
        /\ \A k \in 1..Len(chChunks) : Len(chChunks[k]) <= chSize
        /\ \A i \in 1..Len(chText) :
              \E k \in 1..Len(chChunks) : chText[i] \in Range(chChunks[k])
        /\ (chText = Text(10) /\ chSize = 4 /\ chOverlap = 1) =>
              chChunks = <<<<"a", "b", "c", "d">>, <<"d", "e", "f", "g">>,
                           <<"g", "h", "i", "j">>, <<"j">>>>

\* C16 as stated: the chunks are those of the formula, each non-empty and at
\* most maxSize long, every index of the text is in a chunk, and
\* chunk('abcdefghij', 4, 1) = ['abcd', 'defg', 'ghij', 'j'].
C16_ChunkerResult ==
    /\ C16_Result
    /\ (chPc = "returned" /\ chOverlap < chSize) =>
          \A k \in 1..Len(chChunks) : chChunks[k] # <<>>

\* C16 amended: the chunks are non-empty when the text is not empty (the empty
\* text gives the one chunk '').
C16_Amended ==
    /\ C16_Result
    /\ (chPc = "returned" /\ chOverlap < chSize /\ chText # <<>>) =>
          \A k \in 1..Len(chChunks) : chChunks[k] # <<>>

\* the example of the claim has returned
C16_Witness ==
    /\ chPc = "returned"
    /\ chText = Text(10) /\ chSize = 4 /\ chOverlap = 1
    /\ Len(chChunks) = 4

\* C17: a call with overlap < maxSize returns; a call with overlap >= maxSize
\* on a text longer than maxSize never returns, its window start staying
\* below len(text).
C17_Termination ==
    /\ (chPc = "loop" /\ chOverlap < chSize) ~> (chPc = "returned")
    /\ [](chOverlap >= chSize /\ Len(chText) > chSize =>
             chPc # "returned" /\ chStart < Len(chText))

\* a call with overlap >= maxSize is still in its loop after MaxChunks chunks
C17_Witness ==
    /\ chPc = "loop"
    /\ chOverlap >= chSize
    /\ Len(chChunks) = MaxChunks

\* the entry of a path in an index, as a set
EntryOf(index, f) == {index[g] : g \in (DOMAIN index) \cap {f}}

\* the persisted index still makes the next run take up f: f is on disk with
\* another hash than the entry's, or f is gone and has an entry
StillChanged(f) ==
    IF f \in DOMAIN scanned /\ scanned[f] # Absent
    THEN _get_stored_file_hash(indexFile, f) # CurrentHash(f)
    ELSE f \in DOMAIN indexFile

C19_FailureIsolated ==
    failed # {} =>
        /\ pc = "written"
        /\ \A k \in 1..Len(files_to_index) :
              files_to_index[k].file_path \notin failed =>
                  _get_stored_file_hash(indexFile, files_to_index[k].file_path)
                     = files_to_index[k].file_hash

\* C20: a task that finds its cache file holding invalid JSON takes it for
\* empty and goes on; reading the file never ends the task by an exception.
C20_CorruptionNotFatal ==
    \A p \in Packages : task[p].pc # "load_raised"

\* C21: a file whose hash at the scan equals the hash of its loaded entry is
\* sent to the store neither for an add nor for a delete, and its entry, hash
\* and indexed_at, is in the object and in the persisted index as it was loaded.
C21_UnchangedUntouched ==
    Scanned =>
        \A f \in UnchangedPaths :
            /\ f \notin issuedAdds
            /\ f \notin issuedDeletes
            /\ EntryOf(index_cache, f) = {loadedIndex[f]}
            /\ EntryOf(indexFile, f) = {loadedIndex[f]}

\* a completed run that left one file alone and indexed another one, at a
\* later time than the entry of the file left alone
C21_Witness ==
    /\ pc = "written"
    /\ issuedAdds # {}
    /\ \E f \in UnchangedPaths : loadedIndex[f].indexed_at < clock

\* C22: a file of the loaded index that the scan did not find loses its entry,
\* in the object and in the persisted index, only when its store delete was
\* sent and did not fail, and then the run's collection holds no record of it;
\* when its delete fails the persisted entry is what it was and the file is
\* still one the next run takes up.
C22_RemovalOneStep ==
    [][pc = "init" =>
          \A f \in RemovedPaths' :
              /\ f \notin DOMAIN index_cache' =>
                     f \in issuedDeletes' \ failed'
              /\ (f \in DOMAIN indexFile /\ f \notin DOMAIN indexFile') =>
                     /\ f \in issuedDeletes' \ failed'
                     /\ StoredFor(f)' = {}
              /\ f \in failed' =>
                     /\ EntryOf(indexFile', f) = {loadedIndex[f]}
                     /\ StillChanged(f)']_vars

\* two files were removed; the delete of one succeeded, the delete of the other
\* failed, and both are still in the persisted index
C22_Witness ==
    /\ pc = "aborted_delete"
    /\ Cardinality(issuedDeletes) = 2
    /\ issuedDeletes \subseteq DOMAIN indexFile
    /\ \E f \in failed : StoredFor(f) # {}

\* C25: index.json is read by __init__ and by nothing after it; it changes only
\* in the step that completes index_codebase, which leaves in it the whole of
\* self._index_cache; a call that the store ends with an exception leaves the
\* file as it was, which is as the object loaded it.
C25_IndexWrittenOnce ==
    [][/\ indexFile' # indexFile => (pc = "init" /\ pc' = "written")
       /\ (pc = "init" /\ pc' = "written") => indexFile' = index_cache'
       /\ (pc = "init" /\ pc' \in {"aborted_add", "aborted_delete"}) =>
              /\ indexFile' = indexFile
              /\ ~cleared => indexFile' = loadedIndex
       /\ (pc # "init" /\ pc' = "init") =>
              /\ indexFile' = indexFile
              /\ loadedIndex' = IF cleared' THEN EmptyMap ELSE indexFile]_vars

\* a run that added a file, failed in a delete and left the file as loaded
\* while the object's index had already changed
C25_Witness ==
    /\ pc = "aborted_delete"
    /\ issuedAdds # {}
    /\ ~cleared
    /\ indexFile = loadedIndex
    /\ index_cache # indexFile

\* the chunk texts a collection holds
Documents(coll) == {r.document : r \in coll}

\* the chunk texts of the files a call of index_codebase sent to the store
AddedDocuments ==
    UNION {Range(_chunk_file_content(files_to_index[k].content)) :
              k \in {j \in 1..Len(files_to_index) :
                        files_to_index[j].file_path \in issuedAdds \ failed}}

\* C26: a collection never holds two records of one chunk text, and a call of
\* index_codebase that adds only chunk texts the collection already holds adds
\* no record: the collection is left as it was, less what the call deleted.
C26_IdempotentAdd ==
    /\ [](\A c \in Collections : \A r1, r2 \in chroma[c] :
              r1.document = r2.document => r1 = r2)
    /\ [][(pc = "init" /\ pc' # "init"
            /\ AddedDocuments' \subseteq Documents(chroma[CollectionName(codebase)])) =>
              /\ chroma'[CollectionName(codebase)]
                     \subseteq chroma[CollectionName(codebase)]
              /\ issuedDeletes' = {} => chroma' = chroma]_vars

\* the second object of a behaviour, built with clear_cache, has added again a
\* file that the first run added with the same content; the record of a file
\* it did not add shows that the collection was not emptied in between
C26_Witness ==
    /\ pc = "written"
    /\ clock = 2
    /\ cleared
    /\ prevRun # NoRun
    /\ prevRun.codebase = codebase
    /\ \E f, g \in FilesOf(codebase) :
          /\ f \in issuedAdds
          /\ prevRun.corpus[f] = scanned[f]
          /\ Cardinality(StoredFor(f)) = 1
          /\ g \notin issuedAdds
          /\ StoredFor(g) # {}

\* the ids of the records a collection holds
Ids(coll) == {r.id : r \in coll}

\* C28: after a completed run the run's collection holds every chunk of the
\* scanned content of each file of the codebase that has an entry in the
\* persisted index.
C28_StoreHoldsIndexed ==
    pc = "written" =>
        \A f \in ScannedPaths \cap DOMAIN indexFile :
            CurrentChunkIds(f) \subseteq Ids(chroma[CollectionName(codebase)])

\* the same for the files the run itself added: their chunks can be missing
\* only because the run deleted them again
C28_AddedInRun ==
    pc = "written" =>
        \A f \in issuedAdds :
            CurrentChunkIds(f) \subseteq Ids(chroma[CollectionName(codebase)])

\* the object loaded the index a completed run over the same codebase
\* persisted, and has scanned the codebase
AfterCompletedRun ==
    /\ Scanned
    /\ ~cleared
    /\ prevRun # NoRun
    /\ prevRun.codebase = codebase

\* C30: a file whose content at the scan differs in any character from the
\* content it had at the completed run whose index was loaded is scheduled
\* for indexing.
C30_EveryChangeDetected ==
    AfterCompletedRun =>
        \A f \in ScannedPaths :
            (prevRun.corpus[f] # Absent /\ prevRun.corpus[f] # scanned[f]) =>
                f \in ScheduledPaths

\* the characters of a content that are not newlines, in their order
NotNewline(c) == c # "\n"
Letters(s) == SelectSeq(s, NotNewline)

\* C30 as the code has it: a file is scheduled for indexing exactly when its
\* content without newlines differs from the content without newlines it had
\* at the completed run whose index was loaded; two contents that differ only
\* in newlines are taken for unchanged.
C30_Amended ==
    AfterCompletedRun =>
        \A f \in ScannedPaths :
            prevRun.corpus[f] # Absent =>
                (f \in ScheduledPaths
                    <=> Letters(prevRun.corpus[f]) # Letters(scanned[f]))

\* one file changed in a letter and was scheduled, another changed in a
\* newline only and was not
C30_Witness ==
    /\ AfterCompletedRun
    /\ pc = "written"
    /\ \E f, g \in ScannedPaths :
          /\ prevRun.corpus[f] # Absent
          /\ prevRun.corpus[f] # scanned[f]
          /\ f \notin ScheduledPaths
          /\ prevRun.corpus[g] # Absent
          /\ g \in ScheduledPaths

\* the place of a task's changelog: the cache file and the key in it
WrittenSlot(p) ==
    IF impl = "release_notes"
    THEN <<NotesFile, NotesKey(p, CurrentVersion(p), task[p].latest_version)>>
    ELSE <<RunnerFile(p), RunnerKey(CurrentVersion(p), task[p].latest_version)>>

\* C23: in a run every task writes the cache at most once, the keys of two
\* tasks of the run that know their latest version are never the same key of
\* the same file, and an entry the cache holds is never replaced or dropped.
C23_UniqueKeys ==
    /\ [](\A p \in Packages : task[p].sets <= 1)
    /\ [](\A p, q \in Packages :
              (/\ p # q
               /\ task[p].latest_version # NoVersion
               /\ task[q].latest_version # NoVersion) =>
                  WrittenSlot(p) # WrittenSlot(q))
    /\ [][/\ \A k \in DOMAIN notesCache :
                 k \in DOMAIN notesCache' /\ notesCache'[k] = notesCache[k]
          /\ \A p \in Packages : \A k \in DOMAIN runnerCache[p] :
                 /\ k \in DOMAIN runnerCache'[p]
                 /\ runnerCache'[p][k] = runnerCache[p][k]]_vars

\* the two tasks of a run wrote their entries for the same pair of versions
C23_Witness ==
    /\ task["p"].sets = 1
    /\ task["q"].sets = 1
    /\ task["p"].latest_version = task["q"].latest_version
    /\ Cardinality(DOMAIN notesCache) >= 2

\* C24: in a task, a cache write is of the text filtered from what
\* changelogs.get returned; a summary is asked for only once the task's text
\* is in the cache it reads, and is made of that text; and the cache is read
\* only once the version lookup has returned a version.
C24_CausalOrder ==
    \A p \in Packages :
        /\ task[p].sets = 1 =>
               /\ RetrievalReturned(p)
               /\ Cached(impl, p, task[p].latest_version)
               /\ CachedText(impl, p, task[p].latest_version)
                      = filter_changelog_by_version(task[p].got.changelog,
                            CurrentVersion(p), task[p].latest_version)
        /\ (task[p].summaries = 1 /\ ReadsCache(impl, use_cache)) =>
               /\ task[p].hit \/ task[p].sets = 1
               /\ Cached(impl, p, task[p].latest_version)
               /\ CachedText(impl, p, task[p].latest_version) = task[p].changelog
        /\ task[p].summary # None =>
               /\ task[p].summaries = 1
               /\ task[p].summary = <<"summary">> \o task[p].changelog
        /\ task[p].looked => task[p].latest_version # NoVersion
        /\ task[p].gets = 1 => task[p].latest_version # NoVersion

\* a task that retrieved, wrote the cache and was summarized
C24_Witness ==
    \E p \in Packages :
        /\ task[p].pc = "completed"
        /\ task[p].gets = 1
        /\ task[p].sets = 1
        /\ task[p].summary # None
        /\ task[p].changelog # <<>>

\* the step in which the fetch of p's changelog runs
Fetched(p) ==
    /\ checks' = checks
    /\ task[p].pc = "lookup"
    /\ task'[p].pc \in {"summarizing", "completed", "raised"}

\* C27: a task whose retrieval ends with FAILURE or NOT_FOUND has written no
\* cache entry and its fetch leaves both caches as they were, its key not in
\* them; and a fetch that does not find its key in the cache calls
\* changelogs.get, so a later run retrieves again.
C27_FailureNotCached ==
    /\ [](\A p \in Packages :
              task[p].status \in {"FAILURE", "NOT_FOUND"} =>
                  /\ task[p].sets = 0
                  /\ task[p].gets = 1)
    /\ [][\A p \in Packages :
              Fetched(p) =>
                  /\ task'[p].status \in {"FAILURE", "NOT_FOUND"} =>
                         /\ notesCache' = notesCache
                         /\ runnerCache' = runnerCache
                         /\ setCalls' = setCalls
                         /\ ~Cached(impl, p, task'[p].latest_version)
                  /\ ~Cached(impl, p, task'[p].latest_version) =>
                         task'[p].gets = 1]_vars

\* in a second run a retrieval found nothing or raised, and the entry an
\* earlier fetch wrote is still in the cache
C27_Witness ==
    /\ checks = 2
    /\ notesCache # EmptyMap
    /\ \E p \in Packages :
          /\ task[p].status \in {"FAILURE", "NOT_FOUND"}
          /\ task[p].gets = 1
          /\ ~Cached(impl, p, task[p].latest_version)

\* C29: whatever the order in which the tasks of a run take their steps, the
\* cache holds the text of every task whose fetch ended with SUCCESS, and the
\* save of a task adds the task's own key and leaves every other entry, and
\* the files of the other packages, as they were.
C29_NoLostUpdate ==
    /\ [](\A p \in Packages :
              (task[p].status = "SUCCESS" /\ ReadsCache(impl, use_cache)) =>
                  /\ Cached(impl, p, task[p].latest_version)
                  /\ CachedText(impl, p, task[p].latest_version)
                        = task[p].changelog)
    /\ [][\A p \in Packages :
              (Fetched(p) /\ task'[p].sets = 1) =>
                  /\ DOMAIN notesCache \subseteq DOMAIN notesCache'
                  /\ \A k \in DOMAIN notesCache : notesCache'[k] = notesCache[k]
                  /\ Cardinality((DOMAIN notesCache') \ DOMAIN notesCache)
                        = (IF impl = "release_notes" THEN 1 ELSE 0)
                  /\ \A q \in Packages \ {p} : runnerCache'[q] = runnerCache[q]
                  /\ \A k \in DOMAIN runnerCache[p] :
                        /\ k \in DOMAIN runnerCache'[p]
                        /\ runnerCache'[p][k] = runnerCache[p][k]]_vars

\* the run has returned and both of its tasks saved an entry; both entries
\* are in the cache
C29_Witness ==
    /\ gather = "returned"
    /\ \A p \in Packages :
          /\ task[p].sets = 1
          /\ task[p].status = "SUCCESS"
          /\ Cached(impl, p, task[p].latest_version)

\* C31: a task that found its key in the cache ends its fetch with the status
\* SUCCESS and the cached text as its changelog, and that text is summarized.
C31_CachedAgrees ==
    \A p \in Packages :
        task[p].hit =>
            /\ task[p].status = "SUCCESS"
            /\ task[p].changelog = CachedText(impl, p, task[p].latest_version)
            /\ task[p].summaries = 1

\* the same for release_notes.py alone
C31_NotesAgree == impl = "release_notes" => C31_CachedAgrees

\* the task of p has been through _fetch_changelog
RunnerFetched(p) ==
    /\ impl = "dependency"
    /\ task[p].pc \in {"summarizing", "completed", "raised"}
    /\ ~UpToDate(task[p].latest_version, CurrentVersion(p))

\* C33: with USE_CACHE false _fetch_changelog makes no contains, get or set
\* call and always calls changelogs.get, and the cache files are left as they
\* were; with USE_CACHE true contains is called before any changelogs.get, and
\* set is called only after a changelogs.get that followed a contains
\* returning false.
C33_FlagGovernsCache ==
    /\ [](\A p \in Packages :
             RunnerFetched(p) =>
                 IF use_cache
                 THEN /\ task[p].looked
                      /\ task[p].hit => task[p].gets = 0
                      /\ task[p].gets = 1 => ~task[p].hit
                      /\ task[p].sets = 1 => task[p].gets = 1 /\ ~task[p].hit
                 ELSE /\ ~task[p].looked
                      /\ ~task[p].hit
                      /\ task[p].gets = 1
                      /\ task[p].sets = 0)
    /\ [][impl = "dependency" /\ ~use_cache /\ gather = "running"
             => runnerCache' = runnerCache /\ setCalls' = setCalls]_vars

\* USE_CACHE is false and the cache file holds the key of the task, which has
\* called changelogs.get all the same
C33_Witness ==
    /\ ~use_cache
    /\ \E p \in Packages :
          /\ RunnerFetched(p)
          /\ contains(runnerCache[p], CurrentVersion(p), task[p].latest_version)
          /\ task[p].gets = 1
          /\ ~task[p].hit

\* USE_CACHE is true and the task found its key: no changelogs.get
C33_HitWitness ==
    /\ use_cache
    /\ \E p \in Packages : RunnerFetched(p) /\ task[p].hit /\ task[p].gets = 0

\* C32: a completed index_codebase run of an object that loaded index.json
\* leaves the entries of the files of every other codebase in index.json as
\* they were.
C32_OtherCorporaPreserved ==
    [][pc = "init" /\ pc' = "written" /\ ~cleared
          => \A f \in Files \ FilesOf(codebase) :
                 /\ f \in DOMAIN indexFile <=> f \in DOMAIN indexFile'
                 /\ f \in DOMAIN indexFile => indexFile'[f] = indexFile[f]]_vars

\* the step is a completed index_codebase call on an object whose earlier call
\* completed
SecondCall == pc \in {"written", "rewritten"} /\ pc' = "rewritten"

\* C34, no change: a second call on the same object, with the files of the
\* codebase as the earlier call read them, sends no add and no delete to the
\* store.
C34_SecondCallIdle ==
    [][SecondCall /\ (\A f \in FilesOf(codebase) : corpus[f] = scanned[f])
          => issuedAdds' = {} /\ issuedDeletes' = {}]_vars

\* C34, removal: a file the earlier call read and that is gone at the second
\* call is deleted from the store and from the index by the second call.
C34_SecondCallDeletes ==
    [][SecondCall
          => \A f \in FilesOf(codebase) :
                 scanned[f] # Absent /\ corpus[f] = Absent
                     => /\ f \in issuedDeletes'
                        /\ f \notin DOMAIN indexFile'
                        /\ \A r \in chroma'[CollectionName(codebase)] :
                               r.file_path # f]_vars

\* C34: both parts
C34_ReuseIsFresh ==
    [][SecondCall
          => /\ (\A f \in FilesOf(codebase) : corpus[f] = scanned[f])
                    => issuedAdds' = {} /\ issuedDeletes' = {}
             /\ \A f \in FilesOf(codebase) :
                    scanned[f] # Absent /\ corpus[f] = Absent
                        => /\ f \in issuedDeletes'
                           /\ f \notin DOMAIN indexFile'
                           /\ \A r \in chroma'[CollectionName(codebase)] :
                                  r.file_path # f]_vars

====
